---- MODULE Spec2Model ----
(***************************************************************************)
(* A model of PartialCsvParser.hpp: the memory-mapped CSV text held by a   *)
(* CsvConfig, the line locator _get_current_line, the field splitter       *)
(* _split, and the PartialCsvParser range iterators with their get_row().  *)
(* Offsets are 0-based as in the source; byte i of the text is text[i+1].  *)
(***************************************************************************)
EXTENDS Integers, Sequences, FiniteSets, TLC

\* ------------------------------------------------------------------------
\* Bounds of the model
\* ------------------------------------------------------------------------
MaxLen == 4         \* longest CSV text explored (csv_size ranges over 1..MaxLen)
MaxRanges == 2      \* most ranges a partition of the body is split into
MaxEmpty == 2       \* empty results explored per parser over one range
MaxEmptyPartition == 1   \* empty results explored per parser of a partition
SizeBits == 8       \* width given to size_t, wide enough for every offset explored

\* ------------------------------------------------------------------------
\* Program constants
\* ------------------------------------------------------------------------
field_terminator == 44      \* ','
line_terminator == 10       \* '\n'
SIZE_MAX == 2^SizeBits - 1  \* (size_t)-1
PARSE_FROM_BODY_BEGINNING == SIZE_MAX
PARSE_TO_FILE_END == SIZE_MAX

\* the bytes of a text: 'a' for any byte that is no terminator, and the two
\* terminators
Bytes == {97, field_terminator, line_terminator}

\* every text of 1..MaxLen bytes (mmap of an empty file fails, so no CsvConfig
\* ever holds an empty text)
Texts == UNION {[1..n -> Bytes] : n \in 1..MaxLen}

\* offsets a caller may pass as parse_from / parse_to
Offsets == (0..(MaxLen + 2)) \cup {SIZE_MAX}

VARIABLES csv_config, parsers, hist, loc
vars == <<csv_config, parsers, hist, loc>>

\* ------------------------------------------------------------------------
\* _get_current_line
\* ------------------------------------------------------------------------
\* *(text + i); a read outside the mapping is not defined by the source and
\* is only reachable when the ASSERTs of the caller have failed
ByteAt(text, i) == IF i >= 0 /\ i < Len(text) THEN text[i + 1] ELSE 0

\* ASSERT(text_length_byte >= 1); ASSERT(0 <= current_pos);
\* ASSERT(current_pos <= text_length_byte - 1);
LocatorAsserts(text, current_pos) ==
  /\ Len(text) >= 1
  /\ 0 <= current_pos
  /\ current_pos <= Len(text) - 1

\* the backward loop testing the byte under line_start, not the one before it
LineStartContinuesAtByte(text, line_start) ==
  line_start > 0 /\ ByteAt(text, line_start) # line_terminator

\* the condition of the backward loop
LineStartContinues(text, line_start) ==
  line_start > 0 /\ ByteAt(text, line_start - 1) # line_terminator

RECURSIVE SearchLineStart(_, _)
\* while (line_start > text && *(line_start - 1) != line_terminator) --line_start;
SearchLineStart(text, line_start) ==
  IF LineStartContinues(text, line_start)
  THEN SearchLineStart(text, line_start - 1)
  ELSE line_start

RECURSIVE SearchLineEnd(_, _)
\* while (line_end < text + text_length_byte && *line_end != line_terminator) ++line_end;
SearchLineEnd(text, line_end) ==
  IF line_end < Len(text) /\ ByteAt(text, line_end) # line_terminator
  THEN SearchLineEnd(text, line_end + 1)
  ELSE line_end

\* the two out parameters: line (as an offset into text) and line_length_byte
get_current_line(text, current_pos) ==
  LET line_start == SearchLineStart(text, current_pos)
      line_end == SearchLineEnd(text, current_pos)
  IN [line |-> line_start, line_length |-> line_end - line_start]

\* ------------------------------------------------------------------------
\* _split
\* ------------------------------------------------------------------------
\* std::string(text + from, n)
Str(text, from, n) == [i \in 1..n |-> ByteAt(text, from + i - 1)]

RECURSIVE SplitLoop(_, _, _, _, _, _)
\* the while loop of _split over str = text + str_off, followed by the
\* push_back of the last field
SplitLoop(text, str_off, len, p_beg, p_end, ret) ==
  IF p_end < len
  THEN IF ByteAt(text, str_off + p_end) = field_terminator
       THEN SplitLoop(text, str_off, len, p_end + 1, p_end + 1,
                      Append(ret, Str(text, str_off + p_beg, p_end - p_beg)))
       ELSE SplitLoop(text, str_off, len, p_beg, p_end + 1, ret)
  ELSE Append(ret, Str(text, str_off + p_beg, p_end - p_beg))

\* a splitter that gives no field at all for an empty string
splitNothingForEmpty(text, str_off, len) ==
  IF len = 0 THEN <<>> ELSE SplitLoop(text, str_off, len, 0, 0, <<>>)

split(text, str_off, len) == SplitLoop(text, str_off, len, 0, 0, <<>>)

\* ------------------------------------------------------------------------
\* CsvConfig
\* ------------------------------------------------------------------------
\* the constructor, after open/mmap succeeded; header_length is only assigned
\* (and only read, by body_offset) when has_header_line holds
CsvConfig(text, has_header) ==
  LET first == get_current_line(text, 0)
      columns == split(text, first.line, first.line_length)
  IN [csv_text |-> text,
      csv_size |-> Len(text),
      has_header_line |-> has_header,
      n_columns |-> Len(columns),
      header_length |-> IF has_header THEN first.line_length ELSE 0,
      headers |-> IF has_header THEN columns ELSE <<>>]

body_offset(cfg) == IF ~cfg.has_header_line THEN 0 ELSE cfg.header_length + 1

filesize(cfg) == cfg.csv_size

\* ------------------------------------------------------------------------
\* PartialCsvParser
\* ------------------------------------------------------------------------
\* the constructor also asserting parse_from <= parse_to
CtorAssertsOrdered(cfg, parse_from, parse_to) ==
  /\ body_offset(cfg) <= parse_from
  /\ parse_to < filesize(cfg)
  /\ parse_from <= parse_to

\* ASSERT(csv_config.body_offset() <= this->parse_from);
\* ASSERT(this->parse_to < csv_config.filesize());
\* parse_from <= parse_to is deliberately not asserted
CtorAsserts(cfg, parse_from, parse_to) ==
  /\ body_offset(cfg) <= parse_from
  /\ parse_to < filesize(cfg)

\* the sentinel substitutions of the constructor
SubstFrom(cfg, parse_from) ==
  IF parse_from = PARSE_FROM_BODY_BEGINNING THEN body_offset(cfg) ELSE parse_from

\* the end-of-file default taken as filesize() instead of filesize() - 1
SubstToFilesize(cfg, parse_to) ==
  IF parse_to = PARSE_TO_FILE_END THEN filesize(cfg) ELSE parse_to

SubstTo(cfg, parse_to) ==
  IF parse_to = PARSE_TO_FILE_END THEN filesize(cfg) - 1 ELSE parse_to

\* a parser slot no constructor has run on yet
Unconstructed ==
  [status |-> "unconstructed", arg_from |-> 0, arg_to |-> 0,
   parse_from |-> 0, parse_to |-> 0, cur_pos |-> 0]

\* the constructor; status "failed" is a failed ASSERT (PCPAssertionFailed or
\* abort), which leaves no object to call get_row() on.  arg_from and arg_to
\* remember the arguments as passed.
PartialCsvParser(cfg, parse_from, parse_to) ==
  LET pf == SubstFrom(cfg, parse_from)
      pt == SubstTo(cfg, parse_to)
  IN [status |-> IF CtorAsserts(cfg, pf, pt) THEN "ok" ELSE "failed",
      arg_from |-> parse_from, arg_to |-> parse_to,
      parse_from |-> pf, parse_to |-> pt, cur_pos |-> pf]

\* the loop condition with < for <=
LoopGuardStrict(cur_pos, parse_to) == cur_pos < parse_to

\* the loop condition letting the cursor run one byte beyond parse_to
LoopGuardOneBeyond(cur_pos, parse_to) == cur_pos <= parse_to + 1

\* while (cur_pos <= parse_to)
LoopGuard(cur_pos, parse_to) == cur_pos <= parse_to

\* the line parsed wherever in it the cursor stands
AtLineStartAlways(cur_pos, line) == TRUE

\* if (csv_config.content() + cur_pos == line)
AtLineStart(cur_pos, line) == cur_pos = line

\* the same-line test with <= for <
SameLineExhaustedInclusive(parse_to, line, line_length) ==
  parse_to <= line + line_length + 1

\* if (csv_config.content() + parse_to < line + line_length + 1)
SameLineExhausted(parse_to, line, line_length) ==
  parse_to < line + line_length + 1

\* the column check accepting a line with too few columns
ColumnsAtMost(columns, n_columns) == Len(columns) <= n_columns

\* if (columns.size() != csv_config.get_n_columns()) throw
ColumnsMatch(columns, n_columns) == Len(columns) = n_columns

\* what one get_row() call did: kind is "row" (columns returned), "empty"
\* (empty vector returned), "error" (PCPCsvError thrown) or "assert" (an ASSERT
\* of _get_current_line failed); path tells the two empty returns apart; cur
\* is cur_pos when the call ends; located lists the positions handed to
\* _get_current_line; msg is the line quoted in the PCPCsvError
Outcome(kind, path, line, line_length, fields, msg, cur, located) ==
  [kind |-> kind, path |-> path, line |-> line, line_length |-> line_length,
   fields |-> fields, msg |-> msg, cur |-> cur, located |-> located]

\* the column count checked, and the error thrown, before cur_pos is moved
ParseLineThrowsFirst(cfg, cur_pos, line, line_length, located) ==
  LET new_pos == cur_pos + line_length + 1
      columns == SplitLoop(cfg.csv_text, line, line_length, 0, 0, <<>>)
  IN IF Len(columns) = cfg.n_columns
     THEN Outcome("row", "line", line, line_length, columns, <<>>, new_pos, located)
     ELSE Outcome("error", "line", line, line_length, <<>>,
                  Str(cfg.csv_text, line, line_length), cur_pos, located)

\* the branch of get_row() taken when cur_pos is the beginning of the line:
\* cur_pos moves past the line and its terminator first, then the line is
\* split and its column count checked
ParseLine(cfg, cur_pos, line, line_length, located) ==
  LET new_pos == cur_pos + line_length + 1
      columns == split(cfg.csv_text, line, line_length)
  IN IF ColumnsMatch(columns, cfg.n_columns)
     THEN Outcome("row", "line", line, line_length, columns, <<>>, new_pos, located)
     ELSE Outcome("error", "line", line, line_length, <<>>,
                  Str(cfg.csv_text, line, line_length), new_pos, located)

RECURSIVE GetRowLoop(_, _, _, _)
\* the while loop of get_row().  The source's last if repeats the negation of
\* the condition just tested, so it is the ELSE branch here.
GetRowLoop(cfg, parse_to, cur_pos, located) ==
  IF ~LoopGuard(cur_pos, parse_to)
  THEN Outcome("empty", "past_to", -1, 0, <<>>, <<>>, cur_pos, located)
  ELSE IF ~LocatorAsserts(cfg.csv_text, cur_pos)
  THEN Outcome("assert", "locator", -1, 0, <<>>, <<>>, cur_pos,
               Append(located, cur_pos))
  ELSE LET l == get_current_line(cfg.csv_text, cur_pos)
           seen == Append(located, cur_pos)
       IN IF AtLineStart(cur_pos, l.line)
          THEN ParseLine(cfg, cur_pos, l.line, l.line_length, seen)
          ELSE IF SameLineExhausted(parse_to, l.line, l.line_length)
          THEN Outcome("empty", "same_line", -1, 0, <<>>, <<>>, cur_pos, seen)
          ELSE GetRowLoop(cfg, parse_to, l.line + l.line_length + 1, seen)

get_row(cfg, parser) == GetRowLoop(cfg, parser.parse_to, parser.cur_pos, <<>>)

\* ------------------------------------------------------------------------
\* Operations
\* ------------------------------------------------------------------------
\* new PartialCsvParser(csv_config, parse_from, parse_to)
Construct(p, parse_from, parse_to) ==
  /\ parsers[p].status = "unconstructed"
  /\ parsers' = [parsers EXCEPT ![p] = PartialCsvParser(csv_config, parse_from, parse_to)]
  /\ UNCHANGED <<csv_config, hist, loc>>

\* how many calls of a history returned the empty vector
Empties(h) == Cardinality({i \in 1..Len(h) : h[i].kind = "empty"})

\* parsers[p].get_row(); a caller stops calling some time after the empty
\* vector came back
GetRow(p, max_empty) ==
  /\ parsers[p].status = "ok"
  /\ Empties(hist[p]) < max_empty
  /\ LET r == get_row(csv_config, parsers[p])
     IN /\ parsers' = [parsers EXCEPT ![p].cur_pos = r.cur]
        /\ hist' = [hist EXCEPT ![p] = Append(@, r)]
  /\ UNCHANGED <<csv_config, loc>>

\* the i-th smallest element of a set of offsets
Nth(S, i) == CHOOSE x \in S : Cardinality({y \in S : y < x}) = i - 1

\* the i-th of the k = Cardinality(cuts) + 1 contiguous closed ranges that the
\* split points cuts divide the body into: range i ends on the i-th split
\* point, the next one begins on the byte after it
RangeFrom(cfg, cuts, i) == IF i = 1 THEN body_offset(cfg) ELSE Nth(cuts, i - 1) + 1

RangeTo(cfg, cuts, i) ==
  IF i = Cardinality(cuts) + 1 THEN filesize(cfg) - 1 ELSE Nth(cuts, i)

\* a caller splits the body at the offsets cuts (any offsets, no knowledge of
\* the lines): parser 0 gets the default range, parsers 1..k the k ranges
Partition(cuts) ==
  /\ \A p \in DOMAIN parsers : parsers[p].status = "unconstructed"
  /\ Cardinality(cuts) + 1 <= MaxRanges
  /\ parsers' = [p \in DOMAIN parsers |->
        IF p = 0
        THEN PartialCsvParser(csv_config, PARSE_FROM_BODY_BEGINNING, PARSE_TO_FILE_END)
        ELSE IF p <= Cardinality(cuts) + 1
        THEN PartialCsvParser(csv_config, RangeFrom(csv_config, cuts, p),
                              RangeTo(csv_config, cuts, p))
        ELSE parsers[p]]
  /\ UNCHANGED <<csv_config, hist, loc>>

\* a direct call of _get_current_line on the text, its result kept in loc
GetCurrentLine(current_pos) ==
  /\ LocatorAsserts(csv_config.csv_text, current_pos)
  /\ loc' = [pos |-> current_pos] @@ get_current_line(csv_config.csv_text, current_pos)
  /\ loc # loc'
  /\ UNCHANGED <<csv_config, parsers, hist>>

NoLoc == [pos |-> -1, line |-> -1, line_length |-> 0]

\* ------------------------------------------------------------------------
\* Specifications
\* ------------------------------------------------------------------------
InitWith(ids) ==
  /\ \E text \in Texts, has_header \in BOOLEAN :
        csv_config = CsvConfig(text, has_header)
  /\ parsers = [p \in ids |-> Unconstructed]
  /\ hist = [p \in ids |-> <<>>]
  /\ loc = NoLoc

\* one parser over an arbitrary range
Init == InitWith({1})

Next ==
  \/ \E parse_from \in Offsets, parse_to \in Offsets : Construct(1, parse_from, parse_to)
  \/ GetRow(1, MaxEmpty)

Spec == Init /\ [][Next]_vars

\* a partition of the body among parsers 1..MaxRanges, next to parser 0 over
\* the whole body; the get_row() calls of all parsers interleave freely
InitPartition == InitWith(0..MaxRanges)

NextPartition ==
  \/ \E cuts \in SUBSET (body_offset(csv_config)..(filesize(csv_config) - 2)) :
        Partition(cuts)
  \/ \E p \in DOMAIN parsers : GetRow(p, MaxEmptyPartition)

SpecPartition == InitPartition /\ [][NextPartition]_vars

\* the line locator called on every position of every text
NextLocator == \E current_pos \in 0..(MaxLen - 1) : GetCurrentLine(current_pos)

SpecLocator == Init /\ [][NextLocator]_vars

\* ------------------------------------------------------------------------
\* The lines of a text, stated without the locator or the splitter
\* ------------------------------------------------------------------------
Text == csv_config.csv_text

\* the offsets at which a line begins: 0 and every offset that follows a
\* line terminator and is still inside the text
LineStarts(text) ==
  {s \in 0..(Len(text) - 1) : s = 0 \/ text[s] = line_terminator}

\* the offset of the terminator of the line at s, or Len(text) without one
LineStop(text, s) ==
  CHOOSE e \in s..Len(text) :
    /\ e = Len(text) \/ text[e + 1] = line_terminator
    /\ \A i \in s..(e - 1) : text[i + 1] # line_terminator

\* the bytes of the line at s
LineBytes(text, s) == SubSeq(text, s + 1, LineStop(text, s))

\* the number of fields of the line at s
FieldCount(text, s) ==
  1 + Cardinality({i \in (s + 1)..LineStop(text, s) : text[i] = field_terminator})

\* the lines a closed range owns: those that begin inside it
Owned(text, from, to) == {s \in LineStarts(text) : from <= s /\ s <= to}

SortedSeq(S) == [i \in 1..Cardinality(S) |-> Nth(S, i)]

EmptyAt(h) == {i \in 1..Len(h) : h[i].kind = "empty"}

Exhausted(h) == EmptyAt(h) # {}

\* the calls of a history before the first one that returned the empty vector
UpToFirstEmpty(h) ==
  IF Exhausted(h)
  THEN SubSeq(h, 1, (CHOOSE i \in EmptyAt(h) : \A j \in EmptyAt(h) : i <= j) - 1)
  ELSE h

IsRow(e) == e.kind = "row"

LinesOf(h) == [i \in 1..Len(h) |-> h[i].line]

Live == {p \in DOMAIN parsers : parsers[p].status = "ok"}

\* ------------------------------------------------------------------------
\* C3
\* ------------------------------------------------------------------------
\* C3 as stated: once get_row() has returned the empty vector, the lines it
\* returned as rows before are exactly the lines that begin in
\* [parse_from, parse_to], in increasing order.
C3_ReturnedAreOwned ==
  \A p \in Live :
    Exhausted(hist[p]) =>
      LinesOf(SelectSeq(UpToFirstEmpty(hist[p]), IsRow))
        = SortedSeq(Owned(Text, parsers[p].parse_from, parsers[p].parse_to))

\* C3 amended: once get_row() has returned the empty vector, the lines it
\* returned as a row or reported by a PCPCsvError before are exactly the lines
\* that begin in [parse_from, parse_to], in increasing order, one line per
\* call; the ones returned as rows are those with n_columns fields.
C3_HandledAreOwned ==
  \A p \in Live :
    Exhausted(hist[p]) =>
      LET h == UpToFirstEmpty(hist[p])
      IN /\ \A i \in 1..Len(h) : h[i].kind \in {"row", "error"}
         /\ LinesOf(h) = SortedSeq(Owned(Text, parsers[p].parse_from, parsers[p].parse_to))
         /\ \A i \in 1..Len(h) :
              h[i].kind = "row" <=> FieldCount(Text, h[i].line) = csv_config.n_columns

\* a range that begins inside a line and ends on the first byte of a later
\* line has been parsed to exhaustion and that last line was returned
C3_Witness ==
  \E p \in Live :
    /\ Exhausted(hist[p])
    /\ parsers[p].parse_from \notin LineStarts(Text)
    /\ \E i \in 1..Len(hist[p]) :
         hist[p][i].kind = "row" /\ hist[p][i].line = parsers[p].parse_to

\* ------------------------------------------------------------------------
\* C4
\* ------------------------------------------------------------------------
\* C4: after a get_row() call returned the empty vector every later call of
\* the same parser returns the empty vector, and a returned row has at least
\* one field.
C4_IdempotentExhaustion ==
  \A p \in Live :
    /\ \A i \in 1..Len(hist[p]) : \A j \in i..Len(hist[p]) :
         hist[p][i].kind = "empty" => hist[p][j].kind = "empty"
    /\ \A i \in 1..Len(hist[p]) :
         hist[p][i].kind = "row" => Len(hist[p][i].fields) >= 1

\* a parser whose range ends inside the line it began in returned the empty
\* vector twice, the cursor still not beyond parse_to
C4_Witness ==
  \E p \in Live :
    /\ Len(hist[p]) >= 2
    /\ hist[p][1].kind = "empty" /\ hist[p][1].path = "same_line"
    /\ hist[p][2].kind = "empty" /\ hist[p][2].path = "same_line"
    /\ parsers[p].cur_pos <= parsers[p].parse_to

\* ------------------------------------------------------------------------
\* C5
\* ------------------------------------------------------------------------
\* C5: a get_row() call that reaches a line ends in a PCPCsvError exactly when
\* the line's field count differs from n_columns; the error quotes the bytes
\* of the line and hands out no field, and a returned row has exactly
\* n_columns fields.
C5_ColumnMismatchIsError ==
  \A p \in Live : \A i \in 1..Len(hist[p]) :
    LET e == hist[p][i]
    IN e.kind \in {"row", "error"} =>
         /\ e.kind = "error" <=> FieldCount(Text, e.line) # csv_config.n_columns
         /\ e.kind = "error" => e.msg = LineBytes(Text, e.line) /\ e.fields = <<>>
         /\ e.kind = "row" => Len(e.fields) = csv_config.n_columns

\* a line with fewer fields than the first line raised the error, after a row
\* had been returned
C5_Witness ==
  \E p \in Live : \E i \in 1..Len(hist[p]) : \E j \in 1..Len(hist[p]) :
    /\ hist[p][i].kind = "error"
    /\ FieldCount(Text, hist[p][i].line) < csv_config.n_columns
    /\ hist[p][j].kind = "row"

\* ------------------------------------------------------------------------
\* C9
\* ------------------------------------------------------------------------
\* C9: for a position inside the text _get_current_line gives a line that
\* contains the position or ends right before it, holds no terminator, begins
\* at offset 0 or right after a terminator, and stops at the end of the text
\* or at a terminator.
C9_LocatorContract ==
  loc # NoLoc =>
    /\ loc.line <= loc.pos /\ loc.pos <= loc.line + loc.line_length
    /\ \A i \in loc.line..(loc.line + loc.line_length - 1) :
         Text[i + 1] # line_terminator
    /\ loc.line = 0 \/ Text[loc.line] = line_terminator
    /\ \/ loc.line + loc.line_length = Len(Text)
       \/ Text[loc.line + loc.line_length + 1] = line_terminator

\* the locator was called on the terminator of a line that is not empty
C9_Witness ==
  /\ loc # NoLoc
  /\ Text[loc.pos + 1] = line_terminator
  /\ loc.line < loc.pos
  /\ loc.line + loc.line_length = loc.pos

\* ------------------------------------------------------------------------
\* C10
\* ------------------------------------------------------------------------
\* C10: every position get_row() hands to _get_current_line lies inside the
\* text, so no ASSERT of the locator fails.
C10_LocatorInBounds ==
  \A p \in Live : \A i \in 1..Len(hist[p]) :
    /\ hist[p][i].kind # "assert"
    /\ \A k \in 1..Len(hist[p][i].located) :
         0 <= hist[p][i].located[k] /\ hist[p][i].located[k] <= Len(Text) - 1

\* the last line has no terminator, the cursor stands at csv_size + 1 and a
\* further call returned the empty vector without calling the locator
C10_Witness ==
  \E p \in Live :
    /\ Text[Len(Text)] # line_terminator
    /\ parsers[p].cur_pos = Len(Text) + 1
    /\ hist[p] # <<>>
    /\ hist[p][Len(hist[p])].kind = "empty"
    /\ hist[p][Len(hist[p])].located = <<>>

\* ------------------------------------------------------------------------
\* C6
\* ------------------------------------------------------------------------
\* the text is one line, with or without its terminator
HeaderOnly == LineStarts(Text) = {0}

Constructed == {p \in DOMAIN parsers : parsers[p].status # "unconstructed"}

WantedFrom(p) ==
  IF parsers[p].arg_from = SIZE_MAX THEN body_offset(csv_config)
  ELSE parsers[p].arg_from

WantedTo(p) ==
  IF parsers[p].arg_to = SIZE_MAX THEN Len(Text) - 1 ELSE parsers[p].arg_to

\* C7: the constructor replaces the two sentinels, fails exactly when then
\* parse_from < body_offset or parse_to >= csv_size, and otherwise starts the
\* cursor at parse_from; get_row() only ever ran on a parser whose range
\* passed both checks.
C7_RangeValidated ==
  \A p \in Constructed :
    /\ parsers[p].status = "failed"
         <=> (WantedFrom(p) < body_offset(csv_config) \/ WantedTo(p) >= Len(Text))
    /\ parsers[p].status = "ok" =>
         /\ parsers[p].parse_from = WantedFrom(p)
         /\ parsers[p].parse_to = WantedTo(p)
         /\ hist[p] = <<>> => parsers[p].cur_pos = WantedFrom(p)
    /\ hist[p] # <<>> =>
         /\ parsers[p].status = "ok"
         /\ body_offset(csv_config) <= parsers[p].parse_from
         /\ parsers[p].parse_to < Len(Text)

\* a constructor call with parse_to = csv_size has failed
C7_Witness ==
  \E p \in Constructed :
    /\ parsers[p].status = "failed"
    /\ parsers[p].arg_to = Len(Text)
    /\ parsers[p].arg_from = PARSE_FROM_BODY_BEGINNING

\* ------------------------------------------------------------------------
\* C8
\* ------------------------------------------------------------------------
\* C8: when get_row() ended in a PCPCsvError the cursor stands right after the
\* line and its terminator, no other call of the parser is about that line,
\* and the next call handles the next line that begins up to parse_to, or
\* returns the empty vector when there is none.
C8_RecoveryAfterError ==
  \A p \in Live : \A i \in 1..Len(hist[p]) :
    LET e == hist[p][i]
        rest == Owned(Text, LineStop(Text, e.line) + 1, parsers[p].parse_to)
    IN e.kind = "error" =>
         /\ e.cur = LineStop(Text, e.line) + 1
         /\ \A j \in 1..Len(hist[p]) : j # i => hist[p][j].line # e.line
         /\ i < Len(hist[p]) =>
              IF rest = {}
              THEN hist[p][i + 1].kind = "empty"
              ELSE /\ hist[p][i + 1].kind \in {"row", "error"}
                   /\ hist[p][i + 1].line = Nth(rest, 1)

\* a PCPCsvError was followed by a returned row
C8_Witness ==
  \E p \in Live : \E i \in 1..(Len(hist[p]) - 1) :
    hist[p][i].kind = "error" /\ hist[p][i + 1].kind = "row"

\* ------------------------------------------------------------------------
\* C1, C2: partitions of the body
\* ------------------------------------------------------------------------
\* the parsers of the partition
Parts == {p \in Live : p # 0}

\* every line of the body has n_columns fields
WellFormedBody ==
  \A s \in LineStarts(Text) :
    s >= body_offset(csv_config) => FieldCount(Text, s) = csv_config.n_columns

\* the rows a parser returned up to its first empty result
RowsOf(h) ==
  LET rows == SelectSeq(UpToFirstEmpty(h), IsRow)
  IN [i \in 1..Len(rows) |-> rows[i].fields]

RECURSIVE ConcatRows(_)
\* the rows of the parsers p, p + 1, ... of the partition, in range order
ConcatRows(p) ==
  IF p \notin Parts THEN <<>> ELSE RowsOf(hist[p]) \o ConcatRows(p + 1)

AllExhausted == 0 \in Live /\ \A p \in Live : Exhausted(hist[p])

\* C1: over a body whose lines all have n_columns fields, once every parser
\* has returned the empty vector, the rows of the partition's parsers
\* concatenated in range order are the rows of the parser over the whole body.
C1_PartitionCompleteness ==
  (WellFormedBody /\ AllExhausted) => ConcatRows(1) = RowsOf(hist[0])

\* the body was split inside a line, both parts were parsed to exhaustion and
\* the second one returned a row
C1_Witness ==
  /\ WellFormedBody
  /\ AllExhausted
  /\ 2 \in Parts
  /\ parsers[2].parse_from \notin LineStarts(Text)
  /\ Len(RowsOf(hist[2])) >= 1
  /\ Len(RowsOf(hist[0])) >= 2

\* C2: no line is returned (as a row, or reported by a PCPCsvError) by two
\* parsers of a partition, nor twice by one of them, whatever the order of
\* the get_row() calls.
C2_NoDuplication ==
  \A p \in Parts : \A q \in Parts :
    \A i \in 1..Len(hist[p]) : \A j \in 1..Len(hist[q]) :
      ( /\ hist[p][i].kind \in {"row", "error"}
        /\ hist[q][j].kind \in {"row", "error"}
        /\ hist[p][i].line = hist[q][j].line )
      => (p = q /\ i = j)

\* the second parser of a partition split inside a line returned a row before
\* the first parser made any call, and the first one then returned a row too
C2_Witness ==
  /\ 2 \in Parts
  /\ parsers[2].parse_from \notin LineStarts(Text)
  /\ Exhausted(hist[2])
  /\ Len(RowsOf(hist[2])) >= 1
  /\ Len(hist[1]) = 1
  /\ hist[1][1].kind = "row"

====
